---------------------------- MODULE Spec2Model ----------------------------
(***************************************************************************)
(* A model of the Go-binary analysis of src/lib/dockerfile/types.ts:       *)
(* readRawBuildInfo (build-info locator and decoder), decodeString,        *)
(* extractModuleInformation, GoBinary.constructor,                         *)
(* GoBinary.matchFilesToModules, determinePaths and GoBinary.depGraph.     *)
(*                                                                         *)
(* Buffers are sequences of bytes (0..255).  Strings are sequences of      *)
(* one-character strings; Buffer.toString("binary") maps each byte to one  *)
(* character.  Offsets are 0-based, as in the source.                      *)
(*                                                                         *)
(* The constructor is one pipeline (SpecCtor): readRawBuildInfo,           *)
(* extractModuleInformation, the .gopclntab lookup, matchFilesToModules.   *)
(* The other specifications run one stage of it on that stage's own        *)
(* bounded inputs.                                                         *)
(***************************************************************************)
EXTENDS Integers, Sequences, FiniteSets, TLC

VARIABLES
  binary,       \* the Elf image (sections, programs)
  data,         \* readRawBuildInfo: the local `data` buffer
  dataOff,      \* offset of `data` in the buffer read at line 226 (byteOffset)
  biPc,         \* readRawBuildInfo: "idle" | "scan" | "header" | "returned" | "threw"
  biOut,        \* readRawBuildInfo: the string returned or the error raised
  bigEndian,    \* readRawBuildInfo: the local `bigEndian` (FALSE until line 260 sets it)
  versionPtr,   \* readRawBuildInfo: readPtr(data.slice(16, 16 + ptrSize)), line 288
  dsData,       \* decodeString: the argument
  dsRes,        \* decodeString: the pair returned
  dsPc,         \* decodeString: "idle" | "call" | "done"
  name,         \* GoBinary.name
  modules,      \* GoBinary.modules: sequence of [name, version, packages]
  ctorPc,       \* GoBinary.constructor: "idle" | "extract" | "findPcln" | "paths"
                \*   | "match" | "constructed" | "threw"
  ctorErr,      \* the error the constructor raised ("" if none)
  files,        \* matchFilesToModules: the argument
  fileIdx,      \* matchFilesToModules: index of the next file of the loop
  modCachePath, \* matchFilesToModules: determinePaths(...).modCachePath
  vendorPath,   \* matchFilesToModules: determinePaths(...).vendorPath
  dgPc,         \* depGraph: "idle" | "start" | "loop" | "spinning" | "built"
  dgMod,        \* depGraph: index of the current module of the outer loop
  dgPkg,        \* depGraph: index of the current package of the inner loop
  dgSpins,      \* depGraph: how many times spin() was awaited
  dgCalls       \* depGraph: the calls made on the DepGraphBuilder, in order

biVars == <<binary, data, dataOff, biPc, biOut, bigEndian, versionPtr>>

dsVars == <<dsData, dsRes, dsPc>>

goVars == <<name, modules>>

ctorVars == <<ctorPc, ctorErr, files, fileIdx, modCachePath, vendorPath>>

dgVars == <<dgPc, dgMod, dgPkg, dgSpins, dgCalls>>

vars == <<biVars, dsVars, goVars, ctorVars, dgVars>>

-----------------------------------------------------------------------------
(* Strings: sequences of one-character strings *)

Min(S) == CHOOSE x \in S : \A y \in S : x <= y

Max(S) == CHOOSE x \in S : \A y \in S : x >= y

\* String.startsWith
StartsWith(s, p) == Len(p) <= Len(s) /\ SubSeq(s, 1, Len(p)) = p

\* String.indexOf(sub) from 0-based position `from`: 0-based, -1 if absent
IndexOfFrom(s, sub, from) ==
  LET hits == {i \in from..(Len(s) - Len(sub)) : SubSeq(s, i + 1, i + Len(sub)) = sub}
  IN  IF hits = {} THEN -1 ELSE Min(hits)

\* String.includes
Includes(s, sub) == IndexOfFrom(s, sub, 0) >= 0

\* String.substring(k)
Substring(s, k) == IF k >= Len(s) THEN << >> ELSE SubSeq(s, k + 1, Len(s))

RECURSIVE Split(_, _)
\* String.split(sep) for a non-empty separator: the pieces between the
\* occurrences of sep, found left to right without overlap
Split(s, sep) ==
  LET i == IndexOfFrom(s, sep, 0)
  IN  IF i < 0 THEN <<s>>
      ELSE <<SubSeq(s, 1, i)>> \o Split(Substring(s, i + Len(sep)), sep)

\* files.find(pred): of the indices of the elements with pred, the first;
\* 0 if there is none
FindFirst(hits) == IF hits = {} THEN 0 ELSE Min(hits)

RECURSIVE Concat(_)
\* the concatenation of a sequence of strings
Concat(ss) == IF Len(ss) = 0 THEN << >> ELSE ss[1] \o Concat(Tail(ss))

RECURSIVE JoinWith(_, _)
\* Array.join(sep)
JoinWith(ss, sep) ==
  IF Len(ss) = 0 THEN << >>
  ELSE IF Len(ss) = 1 THEN ss[1]
  ELSE ss[1] \o sep \o JoinWith(Tail(ss), sep)

RECURSIVE NormalizeSegments(_, _, _)
\* normalizeString of Node's path module: drops empty and "." segments and
\* resolves ".." against the segments kept so far
NormalizeSegments(segs, kept, allowAboveRoot) ==
  IF Len(segs) = 0 THEN kept
  ELSE LET g == segs[1]
           rest == Tail(segs)
       IN  IF g = << >> \/ g = <<".">> THEN NormalizeSegments(rest, kept, allowAboveRoot)
           ELSE IF g = <<".", ".">>
             THEN IF Len(kept) > 0 /\ kept[Len(kept)] # <<".", ".">>
                    THEN NormalizeSegments(rest, SubSeq(kept, 1, Len(kept) - 1), allowAboveRoot)
                  ELSE IF allowAboveRoot
                    THEN NormalizeSegments(rest, Append(kept, g), allowAboveRoot)
                  ELSE NormalizeSegments(rest, kept, allowAboveRoot)
           ELSE NormalizeSegments(rest, Append(kept, g), allowAboveRoot)

\* path.normalize (posix)
PathNormalize(p) ==
  IF Len(p) = 0 THEN <<".">>
  ELSE LET isAbsolute == p[1] = "/"
           trailingSeparator == p[Len(p)] = "/"
           q == JoinWith(NormalizeSegments(Split(p, <<"/">>), << >>, ~isAbsolute), <<"/">>)
       IN  IF Len(q) = 0
             THEN IF isAbsolute THEN <<"/">>
                  ELSE IF trailingSeparator THEN <<".", "/">> ELSE <<".">>
           ELSE (IF isAbsolute THEN <<"/">> ELSE << >>) \o q
                  \o (IF trailingSeparator THEN <<"/">> ELSE << >>)

\* path.join(a, b) (posix): the non-empty arguments joined by "/", normalized
PathJoin(a, b) ==
  IF Len(a) = 0 /\ Len(b) = 0 THEN <<".">>
  ELSE IF Len(a) = 0 THEN PathNormalize(b)
  ELSE IF Len(b) = 0 THEN PathNormalize(a)
  ELSE PathNormalize(a \o <<"/">> \o b)

\* path.parse(p).dir (posix): trailing separators are ignored, then the
\* text before the last separator; "/" for an entry of the root
PathParseDir(p) ==
  IF Len(p) = 0 THEN << >>
  ELSE LET isAbsolute == p[1] = "/"
           start == IF isAbsolute THEN 1 ELSE 0
           nonSep == {i \in start..(Len(p) - 1) : p[i + 1] # "/"}
           seps == IF nonSep = {} THEN {}
                   ELSE {j \in start..(Max(nonSep) - 1) : p[j + 1] = "/"}
           startPart == IF seps = {} THEN 0 ELSE Max(seps) + 1
       IN  IF startPart > 0 THEN SubSeq(p, 1, startPart - 1)
           ELSE IF isAbsolute THEN <<"/">> ELSE << >>

\* trimPrefix
trimPrefix(s, prefix) == IF StartsWith(s, prefix) THEN Substring(s, Len(prefix)) ELSE s

-----------------------------------------------------------------------------
(* The stages a specification does not run stay idle *)

BiIdle ==
  /\ binary = [sections |-> << >>, programs |-> << >>]
  /\ data = << >>
  /\ dataOff = 0
  /\ biPc = "idle"
  /\ biOut = [err |-> "", str |-> << >>]
  /\ bigEndian = FALSE
  /\ versionPtr = -1

DsIdle ==
  /\ dsData = << >>
  /\ dsRes = [res |-> << >>, rest |-> << >>]
  /\ dsPc = "idle"

GoIdle ==
  /\ name = << >>
  /\ modules = << >>

CtorIdle ==
  /\ ctorPc = "idle"
  /\ ctorErr = ""
  /\ files = << >>
  /\ fileIdx = 0
  /\ modCachePath = << >>
  /\ vendorPath = << >>

DgIdle ==
  /\ dgPc = "idle"
  /\ dgMod = 0
  /\ dgPkg = 0
  /\ dgSpins = 0
  /\ dgCalls = << >>

-----------------------------------------------------------------------------
(* Buffers: sequences of bytes *)

\* Buffer.subarray(k) / Buffer.slice(k): the bytes from 0-based offset k on
Subarray(buf, k) == IF k >= Len(buf) THEN << >> ELSE SubSeq(buf, k + 1, Len(buf))

\* Buffer.slice(a, b): bytes a .. b-1, clamped to the buffer
Slice(buf, a, b) ==
  LET e == IF b > Len(buf) THEN Len(buf) ELSE b
  IN  IF a >= e THEN << >> ELSE SubSeq(buf, a + 1, e)

\* The characters the model's buffers spell, with their codes
CharTable ==
  <<<<9, "\t">>, <<10, "\n">>, <<47, "/">>, <<49, "1">>, <<50, "2">>,
    <<61, "=">>, <<62, ">">>, <<64, "@">>, <<97, "a">>, <<98, "b">>,
    <<99, "c">>, <<100, "d">>, <<101, "e">>, <<103, "g">>, <<104, "h">>,
    <<109, "m">>, <<111, "o">>, <<112, "p">>, <<116, "t">>, <<120, "x">>>>

\* The character with code b; a code outside the table is spelled \<code>
Chr(b) ==
  IF \E k \in 1..Len(CharTable) : CharTable[k][1] = b
    THEN CharTable[CHOOSE k \in 1..Len(CharTable) : CharTable[k][1] = b][2]
  ELSE "\\" \o ToString(b)

\* The code of a character of the table
Ord(c) == CharTable[CHOOSE k \in 1..Len(CharTable) : CharTable[k][2] = c][1]

\* Buffer.toString("binary"): one character per byte
BinaryString(buf) == [i \in 1..Len(buf) |-> Chr(buf[i])]

\* Buffer.from(str, "binary") for a string of table characters
StringBytes(str) == [i \in 1..Len(str) |-> Ord(str[i])]

-----------------------------------------------------------------------------
(* readRawBuildInfo: constants *)

\* "\xff Go buildinf:" as bytes
buildInfoMagic == <<255, 32, 71, 111, 32, 98, 117, 105, 108, 100, 105, 110, 102, 58>>

buildInfoAlign == 16

buildInfoSize == 32

\* 64 * 1024, the size passed to readData
ReadSize == 65536

\* Values read by readPtr are kept exact below AddrCap and represented by
\* AddrCap from there on; every program of the model ends below AddrCap.
AddrCap == 100000


-----------------------------------------------------------------------------
(* Helpers of readRawBuildInfo *)

\* x & ~m for a power of two m and x >= 0: clears the bit of weight m
AndNot(x, m) == IF (x \div m) % 2 = 1 THEN x - m ELSE x

Sat(v) == IF v >= AddrCap THEN AddrCap ELSE v

Reverse(s) == [i \in 1..Len(s) |-> s[Len(s) + 1 - i]]

RECURSIVE ReadUIntBE(_)
\* Buffer.readUInt32BE / readBigUInt64BE over all of `bytes`
ReadUIntBE(bytes) ==
  IF Len(bytes) = 0 THEN 0
  ELSE Sat(ReadUIntBE(SubSeq(bytes, 1, Len(bytes) - 1)) * 256 + bytes[Len(bytes)])

\* Buffer.readUInt32LE / readBigUInt64LE over all of `bytes`
ReadUIntLE(bytes) == ReadUIntBE(Reverse(bytes))

\* The bytes readPtr reads: 4 for ptrSize 4, 8 for any other ptrSize
PtrWidth(ptrSize) == IF ptrSize = 4 THEN 4 ELSE 8

\* readPtr: the closure chosen at lines 262-275, applied to `buf`.
\* -1 stands for the RangeError Buffer.readUInt32* / readBigUInt64* raise
\* on a buffer shorter than the integer.
ReadPtr(ptrSize, be, buf) ==
  LET n == PtrWidth(ptrSize)
  IN  IF Len(buf) < n THEN -1
      ELSE IF be THEN ReadUIntBE(Slice(buf, 0, n)) ELSE ReadUIntLE(Slice(buf, 0, n))

\* String.indexOf(buildInfoMagic) on data.toString("binary"): 0-based, -1 if absent
IndexOfMagic(buf) ==
  LET hits == {i \in 0..(Len(buf) - Len(buildInfoMagic)) :
                 /\ buf[i + 1] = buildInfoMagic[1]
                 /\ SubSeq(buf, i + 1, i + Len(buildInfoMagic)) = buildInfoMagic}
  IN  IF hits = {} THEN -1 ELSE Min(hits)

\* dataStart
DataStart(elf) ==
  LET secs == {k \in 1..Len(elf.sections) : elf.sections[k].name = ".go.buildinfo"}
      progs == {k \in 1..Len(elf.programs) :
                  elf.programs[k].type = "load" /\ elf.programs[k].w}
  IN  IF secs # {} THEN elf.sections[Min(secs)].addr
      ELSE IF progs # {} THEN elf.programs[Min(progs)].vaddr
      ELSE 0

None == [some |-> FALSE, buf |-> << >>]

\* readData: at most `size` bytes of the first program that holds `addr`
ReadData(programs, addr, size) ==
  LET hit == {k \in 1..Len(programs) :
                /\ programs[k].vaddr <= addr
                /\ addr <= programs[k].vaddr + programs[k].filesz - 1}
  IN  IF hit = {} THEN None
      ELSE LET program == programs[Min(hit)]
               n0 == program.vaddr + program.filesz - addr
               n == IF n0 > size THEN size ELSE n0
               from == addr - program.vaddr
           IN  [some |-> TRUE, buf |-> Slice(program.data, from, from + n)]

RangeError == [err |-> "RangeError", str |-> << >>]

\* readString: [err, str]; err is "RangeError" when readPtr raises
ReadString(elf, ptrSize, be, addr) ==
  LET hdr == ReadData(elf.programs, addr, 2 * ptrSize)
  IN  IF ~hdr.some \/ Len(hdr.buf) < 2 * ptrSize THEN [err |-> "", str |-> << >>]
      ELSE LET dataAddr == ReadPtr(ptrSize, be, hdr.buf)
               dataLen == ReadPtr(ptrSize, be, Subarray(hdr.buf, ptrSize))
               d == ReadData(elf.programs, dataAddr, dataLen)
           IN  IF dataAddr < 0 \/ dataLen < 0 THEN RangeError
               ELSE IF ~d.some \/ Len(d.buf) < dataLen THEN [err |-> "", str |-> << >>]
               ELSE [err |-> "", str |-> BinaryString(d.buf)]

RECURSIVE VarintFrom(_, _, _, _)
\* varint.decode from 1-based position pos: LEB128, 7 bits per byte, least
\* significant group first, a set top bit continues.  bytes = 0 when the
\* buffer ends inside the varint.
VarintFrom(buf, pos, mul, acc) ==
  IF pos > Len(buf) THEN [num |-> 0, bytes |-> 0]
  ELSE LET b == buf[pos]
           term == IF b % 128 = 0 THEN 0
                   ELSE IF mul >= AddrCap THEN AddrCap ELSE (b % 128) * mul
           acc2 == Sat(acc + term)
           mul2 == IF mul >= AddrCap THEN AddrCap ELSE mul * 128
       IN  IF b >= 128 THEN VarintFrom(buf, pos + 1, mul2, acc2)
           ELSE [num |-> acc2, bytes |-> pos]

\* varint.decode(data) with varint.decode.bytes
VarintDecode(buf) == VarintFrom(buf, 1, 1, 0)

decodeString_NoEq(d) ==
  LET v == VarintDecode(d)
  IN  IF v.bytes <= 0 \/ v.num > Len(d) - v.bytes
      THEN [res |-> << >>, rest |-> << >>]
      ELSE [res |-> BinaryString(Slice(d, v.bytes, v.num + v.bytes)),
            rest |-> Subarray(d, v.num + v.bytes)]

\* decodeString: [res, rest], res a string and rest a buffer
decodeString(d) ==
  LET v == VarintDecode(d)
      num == v.num
      size == v.bytes
  IN  IF size <= 0 \/ num >= Len(d) - size
      THEN [res |-> << >>, rest |-> << >>]
      ELSE [res |-> BinaryString(Slice(d, size, num + size)),
            rest |-> Subarray(d, num + size)]

\* The result of readRawBuildInfo
Returned(str) == [err |-> "", str |-> str]

Threw(msg) == [err |-> msg, str |-> << >>]

\* lines 253-258: inline-string mode
InlineResult(d) ==
  LET d1 == Subarray(d, 32)
      d2 == decodeString(d1).rest
  IN  Returned(decodeString(d2).res)

bigEndian_Bit0(d) == d[16] % 2 = 1

\* line 260: const bigEndian = data[15] !== 0
bigEndianOf(d) == d[16] # 0

\* lines 284-313: pointer mode
PointerResult(elf, d) ==
  LET ptrSize == d[15]
      be == bigEndianOf(d)
      p1 == ReadPtr(ptrSize, be, Slice(d, 16, 16 + ptrSize))
      version == ReadString(elf, ptrSize, be, p1)
      p2 == ReadPtr(ptrSize, be, Slice(d, 16 + ptrSize, 16 + 2 * ptrSize))
      modInfo == ReadString(elf, ptrSize, be, p2)
      mod == modInfo.str
  IN  IF p1 < 0 THEN RangeError
      ELSE IF version.err # "" THEN version
      ELSE IF version.str = << >> THEN Threw("no version found in go binary")
      ELSE IF p2 < 0 THEN RangeError
      ELSE IF modInfo.err # "" THEN modInfo
      ELSE IF Len(mod) >= 33 /\ mod[Len(mod) - 17 + 1] = "\n"
           THEN Returned(SubSeq(mod, 16 + 1, Len(mod) - 16))
           ELSE Threw("binary is not built with go module support")

-----------------------------------------------------------------------------
(* The Elf images readRawBuildInfo is run on *)

\* Longest data region of the scan images
MaxDataLen == 66

\* Most occurrences of the magic in a scan image
MaxMagics == 2

\* vaddr of the data segment of every image
BaseAddr == 4096

Zeros(n) == [i \in 1..n |-> 0]

RECURSIVE EncodeLE(_, _)
\* v in n bytes, least significant first
EncodeLE(v, n) == IF n = 0 THEN << >> ELSE <<v % 256>> \o EncodeLE(v \div 256, n - 1)

EncodePtr(v, n, be) == IF be THEN Reverse(EncodeLE(v, n)) ELSE EncodeLE(v, n)

MkProgram(type, w, vaddr, bytes) ==
  [type |-> type, w |-> w, vaddr |-> vaddr, filesz |-> Len(bytes), data |-> bytes]

\* A data region of len bytes holding the magic at every offset of S, each
\* followed by ptrSize 8 and flags 2 (inline strings); every other byte is 0.
ScanBuffer(len, S) ==
  [j \in 1..len |->
     LET o == j - 1
     IN  IF \E p \in S : o \in p..(p + 13)
           THEN buildInfoMagic[o - (CHOOSE p \in S : o \in p..(p + 13)) + 1]
         ELSE IF \E p \in S : o = p + 14 THEN 8
         ELSE IF \E p \in S : o = p + 15 THEN 2
         ELSE 0]

RECURSIVE MagicOffsets(_, _, _)
\* Sets of at most k offsets >= from at which full, non-overlapping copies of
\* the magic fit into len bytes
MagicOffsets(len, k, from) ==
  IF k = 0 THEN {{}}
  ELSE {{}} \cup UNION {{{p} \cup T : T \in MagicOffsets(len, k - 1, p + 14)} :
                          p \in from..(len - 14)}

\* An image for the scan loop: one writable load segment, no sections
ScanElf(len, S) ==
  [sections |-> << >>,
   programs |-> <<MkProgram("load", TRUE, BaseAddr, ScanBuffer(len, S))>>]

\* "go"
VersionBytes == StringBytes(<<"g", "o">>)

\* A module-info blob: "path\tc\nmod\ta\t1\ndep\tb\t1\n"
GoodBlob ==
  <<"p", "a", "t", "h", "\t", "c", "\n",
    "m", "o", "d", "\t", "a", "\t", "1", "\n",
    "d", "e", "p", "\t", "b", "\t", "1", "\n">>

\* Pointer-mode module info: 16 bytes, the blob, 16 bytes
ModGood == Zeros(16) \o StringBytes(GoodBlob) \o Zeros(16)

\* 33 bytes without "\n" 17 bytes before the end
ModNoNewline == Zeros(16) \o StringBytes(<<"x">>) \o Zeros(16)

ModShort == StringBytes(<<"x", "\n">>)

DecodeVersions == {<< >>, VersionBytes}

DecodeMods == {ModGood, ModNoNewline, ModShort}

\* The 32-byte header: magic, ptrSize, flags, two pointers, padding
Header(ptrSize, flags, p1, p2, be) ==
  LET h == buildInfoMagic \o <<ptrSize, flags>>
             \o EncodePtr(p1, ptrSize, be) \o EncodePtr(p2, ptrSize, be)
  IN  h \o Zeros(32 - Len(h))

\* A data segment in pointer layout: header, the two string headers
\* (address, length), the version bytes, the module-info bytes, one more byte
PointerImage(ptrSize, flags, be, ver, mod) ==
  LET verHdr == BaseAddr + 32
      modHdr == verHdr + 2 * ptrSize
      verAt == modHdr + 2 * ptrSize
      modAt == verAt + Len(ver)
  IN  Header(ptrSize, flags, verHdr, modHdr, be)
        \o EncodePtr(verAt, ptrSize, be) \o EncodePtr(Len(ver), ptrSize, be)
        \o EncodePtr(modAt, ptrSize, be) \o EncodePtr(Len(mod), ptrSize, be)
        \o ver \o mod \o <<0>>

\* A data segment in inline layout: header, then the two varint-prefixed
\* strings (lengths below 128: one varint byte), then `extra` more bytes
InlineImage(ptrSize, flags, ver, mod, extra) ==
  Header(ptrSize, flags, 0, 0, FALSE)
    \o <<Len(ver)>> \o ver \o <<Len(mod)>> \o mod \o Zeros(extra)

DecodeImages ==
  UNION {UNION {{PointerImage(ptrSize, flags, be, ver, mod) : be \in BOOLEAN}
                  \cup {InlineImage(ptrSize, flags, ver, mod, extra) : extra \in 0..1} :
                    ptrSize \in {4, 8}, flags \in 0..7} :
           ver \in DecodeVersions, mod \in DecodeMods}

\* Images for the decoder: the header at offset 0 of the data region, found
\* through a .go.buildinfo section or through the writable load segment;
\* and images whose data region cannot be read at all
DecodeElfs ==
  {[sections |-> secs, programs |-> <<MkProgram("load", TRUE, BaseAddr, img)>>] :
     secs \in {<< >>, <<[name |-> ".text", addr |-> 0],
                        [name |-> ".go.buildinfo", addr |-> BaseAddr]>>},
     img \in DecodeImages}
  \cup
  {[sections |-> << >>, programs |-> <<MkProgram(type, FALSE, BaseAddr, img)>>] :
     type \in {"load", "note"}, img \in {PointerImage(8, 0, FALSE, VersionBytes, ModGood)}}

-----------------------------------------------------------------------------
(* readRawBuildInfo *)

BiFrame == UNCHANGED <<dsVars, goVars, ctorVars, dgVars>>

\* lines 218-229: readRawBuildInfo is entered on image elf
BiStart(elf) ==
  /\ binary = elf
  /\ data = ReadData(elf.programs, DataStart(elf), ReadSize).buf
  /\ dataOff = 0
  /\ biPc = "scan"
  /\ biOut = Returned(<< >>)
  /\ bigEndian = FALSE
  /\ versionPtr = -1

\* lines 232-235: no match, or fewer than buildInfoSize bytes from it
ScanThrow ==
  /\ biPc = "scan"
  /\ LET i == IndexOfMagic(data)
     IN  i < 0 \/ Len(data) - i < buildInfoSize
  /\ biPc' = "threw"
  /\ biOut' = Threw("not a Go executable")
  /\ UNCHANGED <<binary, data, dataOff, bigEndian, versionPtr>>
  /\ BiFrame

\* lines 236-239: an aligned match is accepted
ScanBreak ==
  /\ biPc = "scan"
  /\ LET i == IndexOfMagic(data)
     IN  /\ ~(i < 0 \/ Len(data) - i < buildInfoSize)
         /\ i % buildInfoAlign = 0 /\ Len(data) - i >= buildInfoSize
         /\ data' = Subarray(data, i)
         /\ dataOff' = dataOff + i
  /\ biPc' = "header"
  /\ UNCHANGED <<binary, biOut, bigEndian, versionPtr>>
  /\ BiFrame

\* line 240: the operand of data.subarray after a misaligned match at i
SkipTo(i) == AndNot(i + buildInfoAlign - 1, buildInfoAlign)

\* line 240: a misaligned match is skipped
ScanSkip ==
  /\ biPc = "scan"
  /\ LET i == IndexOfMagic(data)
     IN  /\ ~(i < 0 \/ Len(data) - i < buildInfoSize)
         /\ ~(i % buildInfoAlign = 0 /\ Len(data) - i >= buildInfoSize)
         /\ data' = Subarray(data, SkipTo(i))
         /\ dataOff' = dataOff + (IF SkipTo(i) > Len(data) THEN Len(data) ELSE SkipTo(i))
  /\ UNCHANGED <<binary, biPc, biOut, bigEndian, versionPtr>>
  /\ BiFrame

\* lines 253-258
DecodeInline ==
  /\ biPc = "header"
  /\ (data[16] \div 2) % 2 # 0
  /\ biOut' = InlineResult(data)
  /\ biPc' = "returned"
  /\ UNCHANGED <<binary, data, dataOff, bigEndian, versionPtr>>
  /\ BiFrame

\* lines 259-314
DecodePointer ==
  /\ biPc = "header"
  /\ (data[16] \div 2) % 2 = 0
  /\ bigEndian' = bigEndianOf(data)
  /\ versionPtr' = ReadPtr(data[15], bigEndianOf(data), Slice(data, 16, 16 + data[15]))
  /\ biOut' = PointerResult(binary, data)
  /\ biPc' = IF PointerResult(binary, data).err = "" THEN "returned" ELSE "threw"
  /\ UNCHANGED <<binary, data, dataOff>>
  /\ BiFrame

BiNext == ScanThrow \/ ScanBreak \/ ScanSkip \/ DecodeInline \/ DecodePointer

BiInit ==
  /\ \/ \E len \in 0..MaxDataLen : \E S \in MagicOffsets(len, MaxMagics, 0) :
          BiStart(ScanElf(len, S))
     \/ \E elf \in DecodeElfs : BiStart(elf)
  /\ DsIdle /\ GoIdle /\ CtorIdle /\ DgIdle

SpecBuildInfo == BiInit /\ [][BiNext]_vars

-----------------------------------------------------------------------------
(* Claims about readRawBuildInfo, checked under SpecBuildInfo *)

\* The buffer read at lines 225-226, before the scan loop changes `data`
OrigData == ReadData(binary.programs, DataStart(binary), ReadSize).buf

\* Every offset of buf at which the magic occurs
MagicAt(buf) ==
  {i \in 0..(Len(buf) - Len(buildInfoMagic)) :
     SubSeq(buf, i + 1, i + Len(buildInfoMagic)) = buildInfoMagic}

\* No occurrence of the magic at a multiple of 16 with 32 bytes from it
NoAlignedMagic(buf) ==
  \A i \in MagicAt(buf) : ~(i % 16 = 0 /\ Len(buf) - i >= 32)

\* C4: for a buffer without an aligned occurrence of the magic (with 32
\* bytes remaining), the scan loop ends by raising "not a Go executable":
\* while it runs it makes progress, and when it has ended it has raised
\* that error.
C4_MisalignedScanFails ==
  NoAlignedMagic(OrigData) =>
    /\ biPc = "scan" => ENABLED <<ScanThrow \/ ScanBreak \/ ScanSkip>>_vars
    /\ biPc # "scan" => biPc = "threw" /\ biOut.err = "not a Go executable"

\* C5: whenever the scan loop accepts a match, the accepted magic starts at
\* a multiple of 16 counted from the start of the data region read.
C5_AcceptedAligned ==
  biPc = "header" => dataOff % 16 = 0

\* The pointer-mode branch (lines 259-314) has run
PointerDecoded ==
  /\ biPc \in {"returned", "threw"}
  /\ biOut.err # "not a Go executable"
  /\ (data[16] \div 2) % 2 = 0

\* C10 as stated: in pointer mode integers are read big-endian iff bit 0 of
\* the flags byte is set.
C10_BigEndianIffBit0 ==
  PointerDecoded =>
    /\ bigEndian <=> (data[16] % 2 = 1)
    /\ versionPtr = ReadPtr(data[15], data[16] % 2 = 1, Slice(data, 16, 16 + data[15]))

\* C10 amended: in pointer mode integers are read big-endian iff the flags
\* byte is non-zero, whichever of its bits are set.
C10_BigEndianIffNonZero ==
  PointerDecoded =>
    /\ bigEndian <=> (data[16] # 0)
    /\ versionPtr = ReadPtr(data[15], data[16] # 0, Slice(data, 16, 16 + data[15]))

\* C10 witness: flags 4 (bit 0 clear) read big-endian, and the value read
\* differs from the little-endian one.
C10_Witness ==
  /\ PointerDecoded
  /\ data[16] = 4
  /\ bigEndian
  /\ versionPtr # ReadPtr(data[15], FALSE, Slice(data, 16, 16 + data[15]))

-----------------------------------------------------------------------------
(* decodeString on its own *)

\* Longest buffer handed to decodeString
MaxDsLen == 4

\* The bytes of those buffers: small values, with and without the
\* continuation bit (128)
DsBytes == {0, 1, 2, 3, 128, 129}

DsInit ==
  /\ \E n \in 0..MaxDsLen : dsData \in [1..n -> DsBytes]
  /\ dsRes = [res |-> << >>, rest |-> << >>]
  /\ dsPc = "call"
  /\ BiIdle /\ GoIdle /\ CtorIdle /\ DgIdle

\* lines 317-326
DecodeStringCall ==
  /\ dsPc = "call"
  /\ dsRes' = decodeString(dsData)
  /\ dsPc' = "done"
  /\ UNCHANGED <<dsData, biVars, goVars, ctorVars, dgVars>>

DsNext == DecodeStringCall

SpecDecodeString == DsInit /\ [][DsNext]_vars

-----------------------------------------------------------------------------
(* Claims about decodeString, checked under SpecDecodeString *)

\* The n bytes after a k-byte varint, as a string, and the bytes after them
DsBody(buf, k, n) ==
  [res |-> BinaryString(SubSeq(buf, k + 1, k + n)),
   rest |-> SubSeq(buf, k + n + 1, Len(buf))]

\* C9 as stated: for a varint n of k > 0 bytes, decodeString returns the n
\* bytes after the varint and the rest whenever n does not exceed the bytes
\* remaining after the varint, also when n equals that number.
C9_ReturnsUpToRemaining ==
  dsPc = "done" =>
    LET v == VarintDecode(dsData)
    IN  (v.bytes > 0 /\ v.num <= Len(dsData) - v.bytes)
          => dsRes = DsBody(dsData, v.bytes, v.num)

\* C9 amended: decodeString returns the n bytes after the varint and the
\* rest exactly when k > 0 and n is strictly less than the bytes remaining
\* after the varint; otherwise, also when n equals that number, it returns
\* ("", empty).
C9_ReturnsBelowRemaining ==
  dsPc = "done" =>
    LET v == VarintDecode(dsData)
    IN  IF v.bytes > 0 /\ v.num < Len(dsData) - v.bytes
          THEN dsRes = DsBody(dsData, v.bytes, v.num)
          ELSE dsRes = [res |-> << >>, rest |-> << >>]

\* C9 witness: a string that fills the buffer exactly (n > 0 bytes remain
\* after the varint) is answered with ("", empty).
C9_Witness ==
  /\ dsPc = "done"
  /\ VarintDecode(dsData).bytes > 0
  /\ VarintDecode(dsData).num = Len(dsData) - VarintDecode(dsData).bytes
  /\ VarintDecode(dsData).num > 0
  /\ dsRes = [res |-> << >>, rest |-> << >>]

-----------------------------------------------------------------------------
(* extractModuleInformation *)

\* new GoModule(name, version): no packages yet
GoModule(n, v) == [name |-> n, version |-> v, packages |-> << >>]

\* GoModule.fullName()
FullName(m) == m.name \o <<"@">> \o m.version

\* "go-distribution@"
GoDistribution ==
  <<"g", "o", "-", "d", "i", "s", "t", "r", "i", "b", "u", "t", "i", "o", "n", "@">>

\* What string concatenation makes of the value undefined
UndefinedText == <<"u", "n", "d", "e", "f", "i", "n", "e", "d">>

\* The value undefined stored as this.name
UndefinedName == <<"<undefined>">>

VersionsLines_WithMain(lines) == SubSeq(lines, 2, Len(lines))

\* line 186: the rest element `...versionsLines` of the destructuring
VersionsLines(lines) == SubSeq(lines, 3, Len(lines))

RECURSIVE CollectModules(_)
\* lines 198-206: one module per line whose fields [1] and [2] are both
\* present and non-empty
CollectModules(lines) ==
  IF Len(lines) = 0 THEN << >>
  ELSE LET f == Split(lines[1], <<"\t">>)
       IN  IF Len(f) < 3 \/ f[2] = << >> \/ f[3] = << >>
             THEN CollectModules(Tail(lines))
           ELSE <<GoModule(f[2], f[3])>> \o CollectModules(Tail(lines))

\* lines 181-208 on the string readRawBuildInfo returned:
\* [err, name, modules]
ExtractResult(mod) ==
  IF mod = << >>
    THEN [err |-> "binary contains empty module info", name |-> << >>, modules |-> << >>]
  ELSE LET lines == Split(mod, <<"\n">>)
       IN  IF Len(lines) < 2
             \* mainModuleLine is undefined: mainModuleLine.split raises
             THEN [err |-> "TypeError", name |-> << >>, modules |-> << >>]
           ELSE LET pathDirective == Split(lines[1], <<"\t">>)
                    lineSplit == Split(lines[2], <<"\t">>)
                    nm == IF lineSplit[1] # <<"m", "o", "d">>
                            THEN GoDistribution \o
                                   (IF Len(pathDirective) >= 2 THEN pathDirective[2]
                                    ELSE UndefinedText)
                          ELSE IF Len(lineSplit) >= 2 THEN lineSplit[2]
                          ELSE UndefinedName
                IN  [err |-> "", name |-> nm,
                     modules |-> CollectModules(VersionsLines(lines))]

CtorFrame == UNCHANGED <<biVars, dsVars, dgVars>>

\* line 67 / line 181: an error of readRawBuildInfo leaves the constructor
ExtractPropagate ==
  /\ ctorPc = "extract"
  /\ biPc = "threw"
  /\ ctorPc' = "threw"
  /\ ctorErr' = biOut.err
  /\ UNCHANGED <<goVars, files, fileIdx, modCachePath, vendorPath>>
  /\ CtorFrame

\* line 67: [this.name, this.modules] = extractModuleInformation(goElfBinary)
ExtractModuleInformation ==
  /\ ctorPc = "extract"
  /\ biPc = "returned"
  /\ LET r == ExtractResult(biOut.str)
     IN  IF r.err # ""
           THEN /\ ctorPc' = "threw"
                /\ ctorErr' = r.err
                /\ UNCHANGED goVars
           ELSE /\ ctorPc' = "findPcln"
                /\ name' = r.name
                /\ modules' = r.modules
                /\ UNCHANGED ctorErr
  /\ UNCHANGED <<files, fileIdx, modCachePath, vendorPath>>
  /\ CtorFrame

-----------------------------------------------------------------------------
(* extractModuleInformation on its own *)

\* Most lines after line 1 of a module-info blob
MaxDepLines == 2

PathLines ==
  {<<"p", "a", "t", "h", "\t", "c">>, <<"p", "a", "t", "h">>, << >>}

MainLines ==
  {<<"m", "o", "d", "\t", "a", "\t", "1">>,
   <<"m", "o", "d", "\t", "a", "\t", "1", "\t", "h">>,
   <<"m", "o", "d", "\t", "a">>,
   <<"m", "o", "d">>,
   <<"d", "e", "p", "\t", "b", "\t", "1">>,
   << >>}

DepLines ==
  {<<"d", "e", "p", "\t", "b", "\t", "1">>,
   <<"d", "e", "p", "\t", "b", "\t", "1", "\t", "h">>,
   <<"=", ">", "\t", "c", "\t", "2", "\t", "h">>,
   <<"d", "e", "p", "\t", "a", "\t", "1">>,
   <<"d", "e", "p", "\t", "b">>,
   <<"d", "e", "p", "\t", "\t", "1">>,
   << >>}

\* Blobs of a path line, a main line and at most MaxDepLines further lines,
\* with or without a final newline; and the blobs of fewer lines
Blobs ==
  {JoinWith(<<p, m>> \o d \o t, <<"\n">>) :
     p \in PathLines, m \in MainLines,
     d \in UNION {[1..n -> DepLines] : n \in 0..MaxDepLines},
     t \in {<< >>, << << >> >>}}
  \cup PathLines

EmInit ==
  /\ binary = [sections |-> << >>, programs |-> << >>]
  /\ data = << >>
  /\ dataOff = 0
  /\ bigEndian = FALSE
  /\ versionPtr = -1
  /\ \/ /\ biPc = "returned"
        /\ \E b \in Blobs : biOut = Returned(b)
     \/ /\ biPc = "threw"
        /\ \E e \in {"not a Go executable", "no version found in go binary",
                     "binary is not built with go module support"} : biOut = Threw(e)
  /\ name = << >>
  /\ modules = << >>
  /\ ctorPc = "extract"
  /\ ctorErr = ""
  /\ files = << >>
  /\ fileIdx = 0
  /\ modCachePath = << >>
  /\ vendorPath = << >>
  /\ DsIdle /\ DgIdle

EmNext == ExtractPropagate \/ ExtractModuleInformation

SpecExtract == EmInit /\ [][EmNext]_vars

-----------------------------------------------------------------------------
(* Claims about extractModuleInformation, checked under SpecExtract *)

\* The lines of the blob readRawBuildInfo returned
BlobLines == Split(biOut.str, <<"\n">>)

\* A line "mod\t<path>\t<version>[\t<hash>]"
IsModRecord(line) ==
  LET f == Split(line, <<"\t">>)
  IN  Len(f) >= 3 /\ f[1] = <<"m", "o", "d">> /\ f[2] # << >> /\ f[3] # << >>

\* A line with non-empty fields [1] and [2]
IsWellFormedDep(line) ==
  LET f == Split(line, <<"\t">>)
  IN  Len(f) >= 3 /\ f[2] # << >> /\ f[3] # << >>

\* The module a line of three or more fields names
ModuleOfLine(line) ==
  LET f == Split(line, <<"\t">>)
  IN  [name |-> f[2], version |-> f[3], packages |-> << >>]

\* The well-formed lines among lines 2.. of the blob, in blob order
DepLinesOfBlob == SelectSeq(SubSeq(BlobLines, 3, Len(BlobLines)), IsWellFormedDep)

\* extractModuleInformation returned for a blob whose line 1 is a mod record
ExtractedModBlob ==
  /\ ctorPc = "findPcln"
  /\ Len(BlobLines) >= 2
  /\ IsModRecord(BlobLines[2])

\* C2 as stated: for a blob whose line 1 is a mod record the name is the
\* main module's path and the module list is the main module followed by
\* one module per well-formed dependency line, in blob order.
C2_MainModuleFirst ==
  ExtractedModBlob =>
    /\ name = ModuleOfLine(BlobLines[2]).name
    /\ modules = <<ModuleOfLine(BlobLines[2])>>
                   \o [k \in 1..Len(DepLinesOfBlob) |-> ModuleOfLine(DepLinesOfBlob[k])]

\* C2 amended: for a blob whose line 1 is a mod record the name is the main
\* module's path and the module list is exactly one module per well-formed
\* line after line 1, in blob order: line 1 itself contributes no module.
C2_DependenciesOnly ==
  ExtractedModBlob =>
    /\ name = ModuleOfLine(BlobLines[2]).name
    /\ modules = [k \in 1..Len(DepLinesOfBlob) |-> ModuleOfLine(DepLinesOfBlob[k])]

\* C2 witness: a mod record and a dependency were parsed, and the main
\* module is not in the list.
C2_Witness ==
  /\ ExtractedModBlob
  /\ Len(modules) >= 1
  /\ \A k \in 1..Len(modules) : modules[k].name # name

-----------------------------------------------------------------------------
(* determinePaths *)

\* isTrimmed: every file name is relative
isTrimmed(fs) == \A k \in 1..Len(fs) : ~StartsWith(fs[k], <<"/">>)

RECURSIVE GoModCachePathFrom(_, _, _)
\* determineGoModCachePath, from module k on: the text before fullName() in
\* the first file that contains "/" + fullName() of the first module that
\* has such a file
GoModCachePathFrom(mods, fs, k) ==
  IF k > Len(mods) THEN << >>
  ELSE LET full == FullName(mods[k])
           idx == FindFirst({n \in 1..Len(fs) : Includes(fs[n], <<"/">> \o full)})
       IN  IF idx # 0 THEN Split(fs[idx], full)[1]
           ELSE GoModCachePathFrom(mods, fs, k + 1)

determineGoModCachePath(mods, fs) == GoModCachePathFrom(mods, fs, 1)

Vendor == <<"v", "e", "n", "d", "o", "r">>

RECURSIVE VendorPathFrom(_, _, _)
\* determineVendorPath, from module k on
VendorPathFrom(mods, fs, k) ==
  IF k > Len(mods) THEN << >>
  ELSE LET vendoredModulePath == PathJoin(Vendor, mods[k].name) \o <<"/">>
           idx == FindFirst({n \in 1..Len(fs) : Includes(fs[n], vendoredModulePath)})
       IN  IF idx = 0 THEN VendorPathFrom(mods, fs, k + 1)
           ELSE LET mainModulePath == Split(fs[idx], vendoredModulePath)[1]
                    sidx == FindFirst({n \in 1..Len(fs) :
                              Includes(fs[n], mainModulePath) /\ ~Includes(fs[n], vendoredModulePath)})
                    \* files.find returns the file itself: "" is falsy
                    success == sidx # 0 /\ fs[sidx] # << >>
                IN  IF success THEN PathJoin(mainModulePath, Vendor) \o <<"/">>
                    ELSE VendorPathFrom(mods, fs, k + 1)

determineVendorPath(mods, fs) == VendorPathFrom(mods, fs, 1)

\* determinePaths
determinePaths(mods, fs) ==
  IF isTrimmed(fs) THEN [modCachePath |-> << >>, vendorPath |-> << >>]
  ELSE [modCachePath |-> determineGoModCachePath(mods, fs),
        vendorPath |-> determineVendorPath(mods, fs)]

-----------------------------------------------------------------------------
(* matchFilesToModules *)

Autogenerated == <<"<autogenerated>">>

Classify_CacheByName(fileName, cachePath, vendPath) ==
  IF vendPath # << >> /\ StartsWith(fileName, vendPath)
    THEN [skip |-> FALSE, byName |-> TRUE, pkgFile |-> trimPrefix(fileName, vendPath)]
  ELSE IF cachePath # << >> /\ StartsWith(fileName, cachePath)
    THEN [skip |-> FALSE, byName |-> TRUE, pkgFile |-> trimPrefix(fileName, cachePath)]
  ELSE IF vendPath = << >> /\ cachePath = << >>
    THEN [skip |-> FALSE, byName |-> FALSE, pkgFile |-> fileName]
  ELSE [skip |-> TRUE, byName |-> FALSE, pkgFile |-> << >>]

\* lines 118-132: how a file name is matched.  byName: against mod.name
\* (vendored) instead of mod.fullName(); skip: the file is passed over
Classify(fileName, cachePath, vendPath) ==
  IF vendPath # << >> /\ StartsWith(fileName, vendPath)
    THEN [skip |-> FALSE, byName |-> TRUE, pkgFile |-> trimPrefix(fileName, vendPath)]
  ELSE IF cachePath # << >> /\ StartsWith(fileName, cachePath)
    THEN [skip |-> FALSE, byName |-> FALSE, pkgFile |-> trimPrefix(fileName, cachePath)]
  ELSE IF vendPath = << >> /\ cachePath = << >>
    THEN [skip |-> FALSE, byName |-> FALSE, pkgFile |-> fileName]
  ELSE [skip |-> TRUE, byName |-> FALSE, pkgFile |-> << >>]

\* lines 158-163: the package name of a file of module m whose name goes
\* on with `rest` after the module's key
PkgName(m, rest) ==
  LET dir == PathParseDir(rest)
      dirName == IF dir = <<"/">> THEN << >> ELSE dir
  IN  m.name \o dirName

\* lines 164-166: packages.push(pkgName) unless packages.includes(pkgName)
AddPackage(m, pkgName) ==
  IF \E k \in 1..Len(m.packages) : m.packages[k] = pkgName THEN m
  ELSE [m EXCEPT !.packages = Append(@, pkgName)]

RECURSIVE MatchModules(_, _, _, _)
\* lines 138-168: the loop over this.modules for one file, from module i
\* on: [threw, mods].  A throw keeps the packages added before it.
MatchModules(mods, i, pkgFile, byName) ==
  IF i > Len(mods) THEN [threw |-> FALSE, mods |-> mods]
  ELSE LET modFullName == IF byName THEN mods[i].name ELSE FullName(mods[i])
       IN  IF ~StartsWith(pkgFile, modFullName)
             THEN MatchModules(mods, i + 1, pkgFile, byName)
           ELSE LET parts == Split(pkgFile, modFullName)
                IN  IF Len(parts) # 2 \/ parts[1] # << >>
                      THEN [threw |-> TRUE, mods |-> mods]
                    ELSE MatchModules(
                           [mods EXCEPT ![i] = AddPackage(@, PkgName(@, parts[2]))],
                           i + 1, pkgFile, byName)

\* lines 113-169: the body of the loop for one file
MatchOneFile(mods, fileName, cachePath, vendPath) ==
  IF fileName = Autogenerated THEN [threw |-> FALSE, mods |-> mods]
  ELSE LET c == Classify(fileName, cachePath, vendPath)
       IN  IF c.skip THEN [threw |-> FALSE, mods |-> mods]
           ELSE MatchModules(mods, 1, c.pkgFile, c.byName)

\* line 112
MatchStart ==
  /\ ctorPc = "paths"
  /\ modCachePath' = determinePaths(modules, files).modCachePath
  /\ vendorPath' = determinePaths(modules, files).vendorPath
  /\ fileIdx' = 1
  /\ ctorPc' = "match"
  /\ UNCHANGED <<goVars, ctorErr, files>>
  /\ CtorFrame

\* lines 113-169: one pass of `for (const fileName of files)`; a
\* GoFileNameError leaves matchFilesToModules and the constructor
MatchFile ==
  /\ ctorPc = "match"
  /\ fileIdx <= Len(files)
  /\ LET r == MatchOneFile(modules, files[fileIdx], modCachePath, vendorPath)
     IN  /\ modules' = r.mods
         /\ IF r.threw
              THEN ctorPc' = "threw" /\ ctorErr' = "GoFileNameError" /\ UNCHANGED fileIdx
              ELSE fileIdx' = fileIdx + 1 /\ UNCHANGED <<ctorPc, ctorErr>>
  /\ UNCHANGED <<name, files, modCachePath, vendorPath>>
  /\ CtorFrame

\* line 170 / line 83: the loop is over, the constructor returns
MatchDone ==
  /\ ctorPc = "match"
  /\ fileIdx > Len(files)
  /\ ctorPc' = "constructed"
  /\ UNCHANGED <<goVars, ctorErr, files, fileIdx, modCachePath, vendorPath>>
  /\ CtorFrame

-----------------------------------------------------------------------------
(* matchFilesToModules on its own *)

\* Most modules of a module list
MaxModules == 2

\* Most files of a file list
MaxFiles == 2

ModuleNames == {<<"a">>, <<"a", "/", "s">>, <<"b">>}

ModulePool == {GoModule(n, <<"1">>) : n \in ModuleNames}

\* Lists of at most n distinct elements of S
ListsOf(S, n) ==
  UNION {{l \in [1..k -> S] : \A i, j \in 1..k : i # j => l[i] # l[j]} : k \in 0..n}

\* Files of two module-cache directories, /x/ and /y/: in the root of a
\* module and in a package directory
CacheFiles ==
  {<<"/", "x", "/", "a", "@", "1", "/", "f">>,
   <<"/", "x", "/", "a", "@", "1", "/", "d", "/", "f">>,
   <<"/", "x", "/", "a", "/", "s", "@", "1", "/", "f">>,
   <<"/", "x", "/", "b", "@", "1", "/", "d", "/", "f">>,
   <<"/", "y", "/", "a", "@", "1", "/", "d", "/", "f">>,
   <<"/", "y", "/", "b", "@", "1", "/", "f">>}

\* The vendor directory of a main module in /p/
VendorFiles ==
  {<<"/", "p", "/">> \o Vendor \o <<"/">> \o n \o <<"/", "f">> : n \in ModuleNames}

\* File names of a -trimpath build: in the root of a module, behind a
\* doubled separator, and in a package directory
TrimmedFiles ==
  {<<"a", "@", "1", "/", "f">>,
   <<"a", "@", "1", "/", "d", "/", "/", "f">>,
   <<"a", "/", "s", "@", "1", "/", "d", "/", "f">>}

\* A file of the main module, the marker of generated code, a file of the
\* Go distribution, and a file name that repeats its module directory
OtherFiles ==
  {<<"/", "p", "/", "m">>, Autogenerated, <<"/", "r", "/", "f">>,
   <<"/", "x", "/", "a", "@", "1", "/", "a", "@", "1", "/", "f">>}

FilePool == CacheFiles \cup VendorFiles \cup TrimmedFiles \cup OtherFiles

MfInit ==
  /\ name = <<"m">>
  /\ modules \in ListsOf(ModulePool, MaxModules)
  /\ \E n \in 0..MaxFiles : files \in [1..n -> FilePool]
  /\ ctorPc = "paths"
  /\ ctorErr = ""
  /\ fileIdx = 0
  /\ modCachePath = << >>
  /\ vendorPath = << >>
  /\ BiIdle /\ DsIdle /\ DgIdle

MfNext == MatchStart \/ MatchFile \/ MatchDone

SpecMatch == MfInit /\ [][MfNext]_vars

-----------------------------------------------------------------------------
(* Claims about matchFilesToModules, checked under SpecMatch *)

\* matchFilesToModules has run to its end without raising
Matched == ctorPc = "constructed"

PackagesOf(m) == {m.packages[k] : k \in 1..Len(m.packages)}

\* C3: after matchFilesToModules has run without raising, every package
\* name is in the package set of exactly one module.
C3_PackageInOneModule ==
  Matched =>
    \A i, j \in 1..Len(modules) :
      i # j => PackagesOf(modules[i]) \cap PackagesOf(modules[j]) = {}

\* C8: after matchFilesToModules has run without raising, no package name
\* ends with "/".
C8_NoTrailingSlash ==
  Matched =>
    \A i \in 1..Len(modules) : \A p \in PackagesOf(modules[i]) :
      Len(p) = 0 \/ p[Len(p)] # "/"

\* The file starts with the vendor prefix that was detected
UnderVendor(f) == vendorPath # << >> /\ StartsWith(f, vendorPath)

\* The package of file f of module m, f holding "/" + m.fullName() + "/":
\* the module name and the directory of what follows the module directory
DerivedPackage(m, f) ==
  LET at == IndexOfFrom(f, <<"/">> \o FullName(m) \o <<"/">>, 0)
  IN  PkgName(m, Substring(f, at + 1 + Len(FullName(m))))

\* C6 as stated: every file that contains "/" + M.fullName() + "/" and does
\* not start with the detected vendor prefix is attributed to M, whatever
\* directory it lies under.
C6_AttributedAnywhere ==
  Matched =>
    \A i \in 1..Len(modules) : \A k \in 1..Len(files) :
      (/\ Includes(files[k], <<"/">> \o FullName(modules[i]) \o <<"/">>)
       /\ ~UnderVendor(files[k]))
        => DerivedPackage(modules[i], files[k]) \in PackagesOf(modules[i])

\* The file lies in M's directory of the detected module cache
InDetectedCache(m, f) ==
  /\ modCachePath # << >>
  /\ StartsWith(f, modCachePath \o FullName(m) \o <<"/">>)

\* C6 amended: after matchFilesToModules has run without raising, every
\* file that starts with the detected module-cache prefix followed by
\* M.fullName() + "/" and does not start with the detected vendor prefix
\* is attributed to M; a file holding "/" + M.fullName() + "/" under
\* another directory than the detected prefix need not be.
C6_AttributedUnderCachePath ==
  Matched =>
    \A i \in 1..Len(modules) : \A k \in 1..Len(files) :
      (InDetectedCache(modules[i], files[k]) /\ ~UnderVendor(files[k]))
        => PkgName(modules[i],
                   Substring(files[k], Len(modCachePath) + Len(FullName(modules[i]))))
             \in PackagesOf(modules[i])

\* C6 witness: one file is attributed under the detected module-cache
\* prefix, and a file of another module under another directory has left
\* that module without packages.
C6_Witness ==
  /\ Matched
  /\ \E i \in 1..Len(modules) : \E k \in 1..Len(files) :
       /\ InDetectedCache(modules[i], files[k])
       /\ ~UnderVendor(files[k])
       /\ modules[i].packages # << >>
  /\ \E i \in 1..Len(modules) : \E k \in 1..Len(files) :
       /\ Includes(files[k], <<"/">> \o FullName(modules[i]) \o <<"/">>)
       /\ ~StartsWith(files[k], modCachePath)
       /\ modules[i].packages = << >>

-----------------------------------------------------------------------------
(* GoBinary.constructor *)

HasPclnTab_AnySection(elf) == Len(elf.sections) > 0

\* lines 69-71: sections.find((section) => section.name === ".gopclntab")
\* found a section
HasPclnTab(elf) ==
  \E k \in 1..Len(elf.sections) : elf.sections[k].name = ".gopclntab"

\* The file lists new LineTable(pclnTab.data).go12MapFiles() may return
PclnFileLists ==
  {<< >>,
   <<Autogenerated, <<"/", "x", "/", "b", "@", "1", "/", "d", "/", "f">>>>,
   <<<<"b", "@", "1", "/", "f">>>>,
   <<<<"/", "p", "/", "m">>, <<"/", "p", "/">> \o Vendor \o <<"/", "b", "/", "f">>>>,
   <<<<"/", "x", "/", "b", "@", "1", "/", "b", "@", "1", "/", "f">>>>}

\* lines 69-82: without a .gopclntab section the constructor raises;
\* otherwise the line table yields the file list
FindPcln ==
  /\ ctorPc = "findPcln"
  /\ IF ~HasPclnTab(binary)
       THEN /\ ctorPc' = "threw"
            /\ ctorErr' = "no pcln table present in Go binary"
            /\ UNCHANGED files
       ELSE /\ ctorPc' = "paths"
            /\ files' \in PclnFileLists
            /\ UNCHANGED ctorErr
  /\ UNCHANGED <<goVars, fileIdx, modCachePath, vendorPath>>
  /\ CtorFrame

\* Data segments of the images the constructor is run on: well-formed
\* build info in pointer and in inline layout, build info that fails each
\* check of readRawBuildInfo and extractModuleInformation, and data regions
\* without the magic or with a misaligned one
CtorImages ==
  {PointerImage(8, 0, FALSE, VersionBytes, ModGood),
   PointerImage(4, 1, TRUE, VersionBytes, ModGood),
   InlineImage(8, 2, VersionBytes, StringBytes(GoodBlob), 1),
   InlineImage(8, 2, VersionBytes, << >>, 1),
   InlineImage(8, 2, VersionBytes, StringBytes(<<"p", "a", "t", "h">>), 1),
   PointerImage(8, 0, FALSE, << >>, ModGood),
   PointerImage(8, 0, FALSE, VersionBytes, ModNoNewline),
   ScanBuffer(40, {}),
   ScanBuffer(48, {7}),
   ScanBuffer(64, {23})}

CtorSections ==
  {<< >>,
   <<[name |-> ".go.buildinfo", addr |-> BaseAddr]>>,
   <<[name |-> ".gopclntab", addr |-> 0]>>,
   <<[name |-> ".go.buildinfo", addr |-> BaseAddr], [name |-> ".gopclntab", addr |-> 0]>>}

CtorElfs ==
  {[sections |-> secs, programs |-> <<MkProgram("load", TRUE, BaseAddr, img)>>] :
     secs \in CtorSections, img \in CtorImages}

CtorInit ==
  /\ \E elf \in CtorElfs : BiStart(elf)
  /\ name = << >>
  /\ modules = << >>
  /\ ctorPc = "extract"
  /\ ctorErr = ""
  /\ files = << >>
  /\ fileIdx = 0
  /\ modCachePath = << >>
  /\ vendorPath = << >>
  /\ DsIdle /\ DgIdle

CtorNext ==
  \/ BiNext
  \/ ExtractPropagate \/ ExtractModuleInformation
  \/ FindPcln
  \/ MatchStart \/ MatchFile \/ MatchDone

SpecCtor == CtorInit /\ [][CtorNext]_vars

-----------------------------------------------------------------------------
(* Claims about the constructor, checked under SpecCtor *)

NoPclnTab == "no pcln table present in Go binary"

\* The image has no section named .gopclntab
LacksPclnTab ==
  \A k \in 1..Len(binary.sections) : binary.sections[k].name # ".gopclntab"

\* The constructor has ended: it returned or it raised
CtorEnded == ctorPc \in {"constructed", "threw"}

Extracted == biPc = "returned" /\ ExtractResult(biOut.str).err = ""

-----------------------------------------------------------------------------
(* GoBinary.depGraph *)

\* "gomodules"
DEP_GRAPH_TYPE == <<"g", "o", "m", "o", "d", "u", "l", "e", "s">>

\* line 97: `${pkg}@${module.version}`
NodeId(pkg, m) == pkg \o <<"@">> \o m.version

\* lines 86-89: new depGraph.DepGraphBuilder({name: DEP_GRAPH_TYPE}, {name: this.name})
NewBuilder(rootName) == [op |-> "new", pkg |-> rootName, version |-> DEP_GRAPH_TYPE, id |-> <<"root">>]

\* lines 98-101: addPkgNode({name: pkg, version: module.version}, nodeId)
AddPkgNode(pkg, m) == [op |-> "addPkgNode", pkg |-> pkg, version |-> m.version, id |-> NodeId(pkg, m)]

\* line 102: connectDep(goModulesDepGraph.rootNodeId, nodeId)
ConnectDep(pkg, m) == [op |-> "connectDep", pkg |-> <<"root">>, version |-> << >>, id |-> NodeId(pkg, m)]

\* line 106: goModulesDepGraph.build()
Build == [op |-> "build", pkg |-> << >>, version |-> << >>, id |-> << >>]

EmitPair_ConnectFirst(calls, pkg, m) ==
  calls \o <<ConnectDep(pkg, m), AddPkgNode(pkg, m)>>

\* lines 97-102: the builder calls of one iteration
EmitPair(calls, pkg, m) ==
  calls \o <<AddPkgNode(pkg, m), ConnectDep(pkg, m)>>

RECURSIVE SkipEmpty(_, _)
\* lines 91-92: the first module from index i on that has a package, or
\* Len(mods) + 1
SkipEmpty(mods, i) ==
  IF i > Len(mods) THEN i
  ELSE IF Len(mods[i].packages) > 0 THEN i
  ELSE SkipEmpty(mods, i + 1)

\* lines 91-92: the loops have a next iteration
HasIteration == dgMod <= Len(modules)

\* lines 91-92: advance the inner loop, then the outer one
Advance ==
  IF dgPkg < Len(modules[dgMod].packages)
    THEN /\ dgPkg' = dgPkg + 1
         /\ dgMod' = dgMod
    ELSE /\ dgPkg' = 1
         /\ dgMod' = SkipEmpty(modules, dgMod + 1)

DgFrame == UNCHANGED <<biVars, dsVars, goVars, ctorVars>>

\* lines 85-92: the builder is created and the loops are entered
DgStart ==
  /\ dgPc = "start"
  /\ dgCalls' = <<NewBuilder(name)>>
  /\ dgMod' = SkipEmpty(modules, 1)
  /\ dgPkg' = 1
  /\ dgPc' = "loop"
  /\ UNCHANGED dgSpins
  /\ DgFrame

\* lines 93-102: an iteration in which isStarving() is false
DgEmit ==
  /\ dgPc = "loop"
  /\ HasIteration
  /\ dgCalls' = EmitPair(dgCalls, modules[dgMod].packages[dgPkg], modules[dgMod])
  /\ Advance
  /\ UNCHANGED <<dgPc, dgSpins>>
  /\ DgFrame

\* lines 93-95: isStarving() is true, the iteration awaits spin()
DgSpin ==
  /\ dgPc = "loop"
  /\ HasIteration
  /\ dgPc' = "spinning"
  /\ dgSpins' = dgSpins + 1
  /\ UNCHANGED <<dgMod, dgPkg, dgCalls>>
  /\ DgFrame

\* lines 95-102: spin() resolves, the iteration goes on
DgResume ==
  /\ dgPc = "spinning"
  /\ dgCalls' = EmitPair(dgCalls, modules[dgMod].packages[dgPkg], modules[dgMod])
  /\ Advance
  /\ dgPc' = "loop"
  /\ UNCHANGED dgSpins
  /\ DgFrame

\* line 106: the loops are over
DgBuild ==
  /\ dgPc = "loop"
  /\ ~HasIteration
  /\ dgCalls' = Append(dgCalls, Build)
  /\ dgPc' = "built"
  /\ UNCHANGED <<dgMod, dgPkg, dgSpins>>
  /\ DgFrame

MaxDgModules == 3

\* Constructed binaries: modules in declaration order, each with its
\* packages in insertion order
DgModulePool ==
  {[name |-> <<"a">>, version |-> <<"1">>, packages |-> p] :
     p \in {<< >>, <<<<"a">>>>, <<<<"a">>, <<"a", "/", "d">>>>, <<<<"a", "/", "d">>, <<"a">>>>}}
  \cup
  {[name |-> <<"b">>, version |-> <<"2">>, packages |-> p] :
     p \in {<< >>, <<<<"b">>>>, <<<<"b", "/", "d">>, <<"b">>>>}}
  \cup
  {[name |-> <<"c">>, version |-> <<"1">>, packages |-> p] :
     p \in {<< >>, <<<<"c">>>>}}

DgModuleLists ==
  {l \in ListsOf(DgModulePool, MaxDgModules) :
     \A i, j \in 1..Len(l) : i # j => l[i].name # l[j].name}

DgInit ==
  /\ name = <<"m">>
  /\ modules \in DgModuleLists
  /\ dgPc = "start"
  /\ dgMod = 0
  /\ dgPkg = 0
  /\ dgSpins = 0
  /\ dgCalls = << >>
  /\ BiIdle /\ DsIdle
  /\ ctorPc = "constructed"
  /\ ctorErr = ""
  /\ files = << >>
  /\ fileIdx = 0
  /\ modCachePath = << >>
  /\ vendorPath = << >>

DgNext == DgStart \/ DgEmit \/ DgSpin \/ DgResume \/ DgBuild

SpecDepGraph == DgInit /\ [][DgNext]_vars

-----------------------------------------------------------------------------
(* Claims about depGraph, checked under SpecDepGraph *)

\* The (module, package) pairs in module-declaration order and, within a
\* module, package-insertion order
Pairs ==
  LET RECURSIVE From(_)
      From(i) ==
        IF i > Len(modules) THEN << >>
        ELSE [k \in 1..Len(modules[i].packages) |-> <<i, k>>] \o From(i + 1)
  IN  From(1)

\* The builder calls the pairs stand for: for the n-th pair, call 2n is its
\* addPkgNode and call 2n + 1 its connectDep to the root; call 1 creates
\* the builder
IsPairCall(c, pos) ==
  LET n == pos \div 2
      m == modules[Pairs[n][1]]
      pkg == m.packages[Pairs[n][2]]
      id == pkg \o <<"@">> \o m.version
  IN  IF pos % 2 = 0
        THEN c = [op |-> "addPkgNode", pkg |-> pkg, version |-> m.version, id |-> id]
        ELSE c = [op |-> "connectDep", pkg |-> <<"root">>, version |-> << >>, id |-> id]

\* C7: whatever iterations yield, the builder sees, after its creation,
\* addPkgNode then connectDep(root, node) for each (module, package) pair
\* in declaration and insertion order, nothing else, a yield never falls
\* between the two calls of a pair, and build() comes only after the last
\* pair.
C7_PairsInOrderThenBuild ==
  /\ \A pos \in 2..Len(dgCalls) :
       IF pos <= 2 * Len(Pairs) + 1 THEN IsPairCall(dgCalls[pos], pos)
       ELSE pos = 2 * Len(Pairs) + 2 /\ dgCalls[pos].op = "build" /\ dgPc = "built"
  /\ dgPc \in {"loop", "spinning"} => Len(dgCalls) % 2 = 1
  /\ dgPc = "built" => Len(dgCalls) = 2 * Len(Pairs) + 2

\* C7 witness: a graph of three pairs over two modules is built after some
\* iterations yielded and others did not.
C7_Witness ==
  /\ dgPc = "built"
  /\ Len(Pairs) >= 3
  /\ \E k \in 1..Len(modules) : Len(modules[k].packages) >= 2
  /\ \E k \in 1..(Len(modules) - 1) : Len(modules[k].packages) = 0
  /\ dgSpins >= 1
  /\ dgSpins < Len(Pairs)

=============================================================================
